---- MODULE Spec2Model ----
(***************************************************************************)
(* Model of the expense-reimbursement client: the auth/session context     *)
(* (AuthProvider) and the expense data-access module (lib/supabase.ts).    *)
(* Every backend call is a suspension point: a handler is one action up to *)
(* its next await, and the backend's effect is applied in the step that    *)
(* delivers the response.                                                  *)
(***************************************************************************)
EXTENDS Integers, Sequences, FiniteSets, TLC

\* ---------------------------------------------------------------- bounds
MaxFetches == 2   \* profile-resolution runs started in one behaviour
MaxEvents == 1    \* auth-state-change events in flight to the handler
MaxExpenses == 1  \* expense rows created in one behaviour
MaxFiles == 2     \* files attached to one createExpense call

\* ---------------------------------------------------------------- values
None == <<>>
Some(x) == <<x>>

UserIds == {"u1", "u2"}
\* a session is identified by the id of its user; None is "no session"
Sessions == {None} \cup {Some(u) : u \in UserIds}

RoleNames == {"user", "admin", "approver"}

\* an auth-state-change event as the callback receives it: (event, session)
Event(type, s) == [type |-> type, session |-> s]

\* users rows: the legacy singular role and the roles collection, either of
\* which may be null (None). "" is the falsy string.
Row(id, role, roles) == [id |-> id, role |-> role, roles |-> roles]

\* rows the table may hold before the client starts
StoredProfiles(u) ==
  { Row(u, None, Some({"admin", "approver"})),
    Row(u, Some("admin"), Some({"approver"})),
    Row(u, Some("admin"), Some({})),
    Row(u, Some("admin"), None),
    Row(u, Some("approver"), None),
    Row(u, Some(""), None),
    Row(u, None, None) }

VARIABLES
  \* React state of AuthProvider
  session, user, profile, isLoading, isAdmin, userRoles,
  \* closure state of the effect
  initialLoad, getSessionPc, events,
  \* profile-resolution runs (fetchUserProfile invocations)
  runs, fetchCount,
  \* signIn / signOut / signUp invocations
  signInCall, signOutPc, su,
  \* backend: the auth service's current session and the users relation
  authSession, users

authVars == <<session, user, profile, isLoading, isAdmin, userRoles,
              initialLoad, getSessionPc, events, runs, fetchCount,
              signInCall, signOutPc, su, authSession, users>>

VARIABLES
  \* backend: the expenses and receipts relations and the next
  \* server-assigned expense id (the objects of the receipts bucket are
  \* written by the uploads and read by no operation: they are not kept)
  expenses, receipts, nextId,
  \* the createExpense and deleteExpense invocations, and how the last
  \* updateExpenseStatus or updatePaymentStatus call ended ("returned" or
  \* "raised")
  cr, del, ret

expVars == <<expenses, receipts, nextId, cr, del, ret>>

VARIABLES
  \* backend: the expenses relation as fetchExpenses reads it (the columns
  \* it filters and sorts on), and the list call looked at: the operation,
  \* how it ended ("returned", "raised", or "empty" for [] in place of an
  \* error) and, for a fetchExpenses that returned, its filters and rows
  table, listed

listVars == <<table, listed>>

vars == <<authVars, expVars, listVars>>

\* the identity state the context exposes
identity == <<session, user, profile, isAdmin, userRoles>>

IdleRun == [pc |-> "none", uid |-> "", by |-> ""]
DoneRun == [pc |-> "done", uid |-> "", by |-> ""]

InFlight(r) == runs[r].pc \notin {"none", "done"}

\* a signUp invocation: its position, the id of the user it registers, the
\* role argument and what it returned ("data": { data, error: null };
\* "error": { data: null, error })
IdleSignUp == [pc |-> "idle", uid |-> "", role |-> "", ret |-> ""]

\* ------------------------------------------------------- role derivation
\* JavaScript truthiness of the singular role field
Truthy(role) == role # None /\ role[1] # ""

\* faulty variant: the singular role consulted before the roles collection
ResolveRolesSingularFirst(row) ==
  IF Truthy(row.role) THEN {row.role[1]}
  ELSE IF row.roles # None THEN row.roles[1]
  ELSE {"user"}

\* const roles = data.roles || (data.role ? [data.role] : ["user"])
\* (an array, even an empty one, is truthy)
ResolveRoles(row) ==
  IF row.roles # None THEN row.roles[1]
  ELSE IF Truthy(row.role) THEN {row.role[1]}
  ELSE {"user"}

\* faulty variant: admin only when it is the sole role
DeriveIsAdminSoleRole(roles) == roles = {"admin"}

\* setIsAdmin(Array.isArray(roles) ? roles.includes("admin") : ...)
DeriveIsAdmin(roles) == "admin" \in roles

\* setUserRoles(Array.isArray(roles) ? roles : ...)
DeriveUserRoles(roles) == roles

\* hasRole(role)
hasRole(role) == IF isAdmin THEN TRUE ELSE role \in userRoles

\* ------------------------------------------------------------------ init
AuthInit ==
  /\ session = None /\ user = None /\ profile = None
  /\ isLoading = TRUE /\ isAdmin = FALSE /\ userRoles = {}
  /\ initialLoad = TRUE
  /\ getSessionPc = "pending"
  /\ authSession \in Sessions
  \* the auth service may or may not announce the stored session to a new
  \* subscriber
  /\ events \in {<<>>, <<Event("INITIAL_SESSION", authSession)>>}
  /\ runs = [r \in 1..MaxFetches |-> IdleRun]
  /\ fetchCount = 0
  /\ signInCall = [pc |-> "idle", uid |-> ""]
  /\ signOutPc = "idle"
  /\ su = IdleSignUp

\* the users relation before the client starts: per user no row, or one of
\* the given rows with that id
Tables(rows) ==
  {t \in [UserIds -> {None} \cup {Some(p) : p \in rows}] :
     \A u \in UserIds : t[u] = None \/ t[u][1].id = u}

\* ------------------------------------------------------ profile resolution
\* fetchUserProfile(userId) up to its first await: setIsLoading(true) and
\* the read of the users row is issued
StartFetch(uid, by) ==
  /\ fetchCount < MaxFetches
  /\ fetchCount' = fetchCount + 1
  /\ runs' = [runs EXCEPT ![fetchCount + 1] = [pc |-> "read", uid |-> uid, by |-> by]]
  /\ isLoading' = TRUE

\* setProfile(data); setIsAdmin(...); setUserRoles(...)
Adopt(row) ==
  /\ profile' = Some(row)
  /\ isAdmin' = DeriveIsAdmin(ResolveRoles(row))
  /\ userRoles' = DeriveUserRoles(ResolveRoles(row))

\* setProfile(null); setIsAdmin(false); setUserRoles(["user"])
Fallback ==
  /\ profile' = None
  /\ isAdmin' = FALSE
  /\ userRoles' = {"user"}

\* faulty variant: an exit path that leaves the finally block out
FinishKeepsLoading(r) ==
  /\ UNCHANGED isLoading
  /\ runs' = [runs EXCEPT ![r] = DoneRun]

\* finally { setIsLoading(false) } and the run is over
Finish(r) ==
  /\ isLoading' = FALSE
  /\ runs' = [runs EXCEPT ![r] = DoneRun]

fetchFrame == <<session, user, initialLoad, getSessionPc, events, fetchCount,
                signInCall, signOutPc, authSession>>

\* the read returns the row
FetchReadFound(r) ==
  /\ runs[r].pc = "read"
  /\ users[runs[r].uid] # None
  /\ Adopt(users[runs[r].uid][1])
  /\ Finish(r)
  /\ UNCHANGED <<fetchFrame, users>>
  /\ UNCHANGED <<su, expVars, listVars>>

\* faulty variant: the creation path is taken without the check of error.code
FetchReadAlwaysMissing(r) ==
  /\ runs[r].pc = "read"
  /\ runs' = [runs EXCEPT ![r].pc = "getUser"]
  /\ UNCHANGED <<fetchFrame, users, profile, isAdmin, userRoles, isLoading>>
  /\ UNCHANGED <<su, expVars, listVars>>

\* the read fails with PGRST116 (no row): await supabase.auth.getUser()
FetchReadMissing(r) ==
  /\ runs[r].pc = "read"
  /\ users[runs[r].uid] = None
  /\ runs' = [runs EXCEPT ![r].pc = "getUser"]
  /\ UNCHANGED <<fetchFrame, users, profile, isAdmin, userRoles, isLoading>>
  /\ UNCHANGED <<su, expVars, listVars>>

\* the read fails with another code, or the await throws
FetchReadFails(r) ==
  /\ runs[r].pc = "read"
  /\ Fallback
  /\ Finish(r)
  /\ UNCHANGED <<fetchFrame, users>>
  /\ UNCHANGED <<su, expVars, listVars>>

\* getUser() answers: with a live identity the insert is issued, without
\* one (or when the await throws) the run falls back
FetchGetUser(r) ==
  /\ runs[r].pc = "getUser"
  /\ \/ /\ authSession # None
        /\ runs' = [runs EXCEPT ![r].pc = "insert"]
        /\ UNCHANGED <<profile, isAdmin, userRoles, isLoading>>
     \/ /\ Fallback
        /\ Finish(r)
  /\ UNCHANGED <<fetchFrame, users>>
  /\ UNCHANGED <<su, expVars, listVars>>

\* the insert succeeds (id is the primary key of users): the re-read is issued
FetchInsert(r) ==
  /\ runs[r].pc = "insert"
  /\ users[runs[r].uid] = None
  /\ users' = [users EXCEPT ![runs[r].uid] =
                 Some(Row(runs[r].uid, Some("user"), Some({"user"})))]
  /\ runs' = [runs EXCEPT ![r].pc = "reread"]
  /\ UNCHANGED <<fetchFrame, profile, isAdmin, userRoles, isLoading>>
  /\ UNCHANGED <<su, expVars, listVars>>

\* insertError (duplicate key or any backend failure), or the await throws
FetchInsertFails(r) ==
  /\ runs[r].pc = "insert"
  /\ Fallback
  /\ Finish(r)
  /\ UNCHANGED <<fetchFrame, users>>
  /\ UNCHANGED <<su, expVars, listVars>>

\* the re-read returns the new row
FetchReread(r) ==
  /\ runs[r].pc = "reread"
  /\ users[runs[r].uid] # None
  /\ Adopt(users[runs[r].uid][1])
  /\ Finish(r)
  /\ UNCHANGED <<fetchFrame, users>>
  /\ UNCHANGED <<su, expVars, listVars>>

\* newData is null (the re-read failed), or the await throws
FetchRereadFails(r) ==
  /\ runs[r].pc = "reread"
  /\ Fallback
  /\ Finish(r)
  /\ UNCHANGED <<fetchFrame, users>>
  /\ UNCHANGED <<su, expVars, listVars>>

\* ------------------------------------------------------------ the effect
\* fetches the environment may still cause: the bound MaxFetches is spent on
\* started runs, the startup run, queued events and a pending signIn
Budget ==
  fetchCount
  + (IF getSessionPc = "pending" THEN 1 ELSE 0)
  + Cardinality({i \in DOMAIN events : events[i].session # None})
  + (IF signInCall.pc = "awaiting" THEN 1 ELSE 0)
  + (IF su.pc = "auth" THEN 1 ELSE 0)

\* events in flight or about to be emitted
Queued ==
  Len(events)
  + (IF signInCall.pc = "awaiting" THEN 1 ELSE 0)
  + (IF signOutPc = "awaiting" THEN 1 ELSE 0)
  + (IF su.pc = "auth" THEN 1 ELSE 0)

\* supabase.auth.getSession().then(...)
GetSessionThen ==
  /\ getSessionPc = "pending"
  /\ getSessionPc' = "done"
  /\ session' = authSession
  /\ user' = authSession
  /\ IF authSession # None
       THEN StartFetch(authSession[1], "startup")
       ELSE isLoading' = FALSE /\ UNCHANGED <<runs, fetchCount>>
  /\ UNCHANGED <<profile, isAdmin, userRoles, initialLoad, events,
                 signInCall, signOutPc, authSession, users>>
  /\ UNCHANGED <<su, expVars, listVars>>

\* the rest of the callback: setSession, setUser, then the profile fetch or
\* the reset of profile, isAdmin, userRoles and isLoading
ApplyEvent(s) ==
  /\ session' = s
  /\ user' = s
  /\ IF s # None
       THEN /\ StartFetch(s[1], "event")
            /\ UNCHANGED <<profile, isAdmin, userRoles>>
       ELSE /\ profile' = None
            /\ isAdmin' = FALSE
            /\ userRoles' = {}
            /\ isLoading' = FALSE
            /\ UNCHANGED <<runs, fetchCount>>

\* faulty variant: the flag is cleared but the return is missing
DiscardFirstFallsThrough ==
  /\ initialLoad' = FALSE
  /\ ApplyEvent(Head(events).session)

\* if (initialLoad) { initialLoad = false; return; }
DiscardFirst ==
  /\ initialLoad' = FALSE
  /\ UNCHANGED <<session, user, profile, isAdmin, userRoles, isLoading, runs,
                 fetchCount>>

\* the onAuthStateChange callback, for the event at the head of the queue
OnAuthStateChange ==
  /\ events # <<>>
  /\ events' = Tail(events)
  /\ IF initialLoad
       THEN DiscardFirst
       ELSE ApplyEvent(Head(events).session) /\ UNCHANGED initialLoad
  /\ UNCHANGED <<getSessionPc, signInCall, signOutPc, authSession, users>>
  /\ UNCHANGED <<su, expVars, listVars>>

\* faulty variant: the handler also drops the profile
HandleVisibilityDropsProfile(state) ==
  /\ IF state = "visible"
       THEN isLoading' = FALSE /\ profile' = None
       ELSE UNCHANGED <<isLoading, profile>>
  /\ UNCHANGED <<session, user, isAdmin, userRoles, initialLoad, getSessionPc,
                 events, runs, fetchCount, signInCall, signOutPc, authSession, users>>
  /\ UNCHANGED <<su, expVars, listVars>>

\* handleVisibility
HandleVisibility(state) ==
  /\ IF state = "visible" THEN isLoading' = FALSE ELSE UNCHANGED isLoading
  /\ UNCHANGED <<identity, initialLoad, getSessionPc, events, runs, fetchCount,
                 signInCall, signOutPc, authSession, users>>
  /\ UNCHANGED <<su, expVars, listVars>>

\* the auth service refreshes the token of the current session
TokenRefreshed ==
  /\ authSession # None
  /\ Budget < MaxFetches
  /\ Queued < MaxEvents
  /\ events' = Append(events, Event("TOKEN_REFRESHED", authSession))
  /\ UNCHANGED <<identity, isLoading, initialLoad, getSessionPc, runs, fetchCount,
                 signInCall, signOutPc, authSession, users>>
  /\ UNCHANGED <<su, expVars, listVars>>

\* ---------------------------------------------------------- signIn, signOut
\* signIn(email, password) up to its await
SignInCall(u) ==
  /\ signInCall.pc = "idle"
  /\ Budget < MaxFetches
  /\ Queued < MaxEvents
  /\ signInCall' = [pc |-> "awaiting", uid |-> u]
  /\ UNCHANGED <<identity, isLoading, initialLoad, getSessionPc, events, runs,
                 fetchCount, signOutPc, authSession, users>>
  /\ UNCHANGED <<su, expVars, listVars>>

\* signInWithPassword answers; signIn returns { data, error }
SignInReturn(ok) ==
  /\ signInCall.pc = "awaiting"
  /\ signInCall' = [pc |-> "idle", uid |-> ""]
  /\ IF ok
       THEN /\ authSession' = Some(signInCall.uid)
            /\ events' = Append(events, Event("SIGNED_IN", Some(signInCall.uid)))
       ELSE UNCHANGED <<authSession, events>>
  /\ UNCHANGED <<identity, isLoading, initialLoad, getSessionPc, runs,
                 fetchCount, signOutPc, users>>
  /\ UNCHANGED <<su, expVars, listVars>>

\* signOut() up to its await
SignOutCall ==
  /\ signOutPc # "awaiting"
  /\ Queued < MaxEvents
  /\ signOutPc' = "awaiting"
  /\ UNCHANGED <<identity, isLoading, initialLoad, getSessionPc, events, runs,
                 fetchCount, signInCall, authSession, users>>
  /\ UNCHANGED <<su, expVars, listVars>>

\* faulty variant: the local state is cleared only if the backend call succeeded
SignOutReturnClearsOnSuccess(ok) ==
  /\ signOutPc = "awaiting"
  /\ signOutPc' = "done"
  /\ IF ok
       THEN /\ authSession' = None
            /\ events' = Append(events, Event("SIGNED_OUT", None))
            /\ session' = None
            /\ user' = None
            /\ profile' = None
            /\ isAdmin' = FALSE
            /\ userRoles' = {}
            /\ isLoading' = FALSE
       ELSE UNCHANGED <<authSession, events, identity, isLoading>>
  /\ UNCHANGED <<initialLoad, getSessionPc, runs, fetchCount, signInCall, users>>
  /\ UNCHANGED <<su, expVars, listVars>>

\* supabase.auth.signOut() answers, then the six setters run
SignOutReturn(ok) ==
  /\ signOutPc = "awaiting"
  /\ signOutPc' = "done"
  /\ IF ok
       THEN /\ authSession' = None
            /\ events' = Append(events, Event("SIGNED_OUT", None))
       ELSE UNCHANGED <<authSession, events>>
  /\ session' = None
  /\ user' = None
  /\ profile' = None
  /\ isAdmin' = FALSE
  /\ userRoles' = {}
  /\ isLoading' = FALSE
  /\ UNCHANGED <<initialLoad, getSessionPc, runs, fetchCount, signInCall, users>>
  /\ UNCHANGED <<su, expVars, listVars>>

\* -------------------------------------------------------------- signUp
\* roles a caller passes to signUp
SignUpRoles == {"approver", "admin"}

signUpFrame == <<identity, isLoading, initialLoad, getSessionPc, runs,
                 fetchCount, signInCall, signOutPc>>

\* signUp(email, password, name, role) up to the await of auth.signUp
SignUpCall(u, role) ==
  /\ su.pc = "idle"
  /\ users[u] = None
  /\ Budget < MaxFetches
  /\ Queued < MaxEvents
  /\ su' = [pc |-> "auth", uid |-> u, role |-> role, ret |-> ""]
  /\ UNCHANGED <<signUpFrame, events, authSession, users>>
  /\ UNCHANGED <<expVars, listVars>>

\* auth.signUp answers. On an error signUp returns { data: null, error }.
\* Otherwise data.user is the new user, the 100 ms timer is awaited and the
\* read of the users row is issued; when the project signs the new user in
\* at once the auth service also emits SIGNED_IN.
SignUpAuthReturn(ok, signedIn) ==
  /\ su.pc = "auth"
  /\ IF ok
       THEN /\ su' = [su EXCEPT !.pc = "read"]
            /\ IF signedIn
                 THEN /\ authSession' = Some(su.uid)
                      /\ events' = Append(events, Event("SIGNED_IN", Some(su.uid)))
                 ELSE UNCHANGED <<authSession, events>>
       ELSE /\ ~signedIn
            /\ su' = [su EXCEPT !.pc = "done", !.ret = "error"]
            /\ UNCHANGED <<authSession, events>>
  /\ UNCHANGED <<signUpFrame, users>>
  /\ UNCHANGED <<expVars, listVars>>

\* the database trigger on new auth users creates the profile row (name and
\* email only) at some moment after the credentials exist
TriggerCreatesProfile ==
  /\ su.pc \in {"read", "insert", "update", "done"}
  /\ su.ret # "error"
  /\ users[su.uid] = None
  /\ users' = [users EXCEPT ![su.uid] = Some(Row(su.uid, None, None))]
  /\ UNCHANGED <<signUpFrame, su, events, authSession>>
  /\ UNCHANGED <<expVars, listVars>>

\* the read of the users row answers: if (profileError) the insert is issued,
\* else the update of roles is issued
SignUpReadReturn(ok) ==
  /\ su.pc = "read"
  /\ IF ok /\ users[su.uid] # None
       THEN su' = [su EXCEPT !.pc = "update"]
       ELSE su' = [su EXCEPT !.pc = "insert"]
  /\ UNCHANGED <<signUpFrame, events, authSession, users>>
  /\ UNCHANGED <<expVars, listVars>>

\* faulty variant: an insertError is surfaced to the caller
SignUpInsertReturnSurfaces(ok) ==
  /\ su.pc = "insert"
  /\ IF ok /\ users[su.uid] = None
       THEN /\ users' = [users EXCEPT ![su.uid] =
                           Some(Row(su.uid, None, Some({su.role})))]
            /\ su' = [su EXCEPT !.pc = "done", !.ret = "data"]
       ELSE /\ UNCHANGED users
            /\ su' = [su EXCEPT !.pc = "done", !.ret = "error"]
  /\ UNCHANGED <<signUpFrame, events, authSession>>
  /\ UNCHANGED <<expVars, listVars>>

\* the insert of { id, name, email, roles: [role] } answers (id is the
\* primary key of users: the insert of a second row with the id fails); an
\* insertError is logged and signUp returns { data, error: null }
SignUpInsertReturn(ok) ==
  /\ su.pc = "insert"
  /\ IF ok /\ users[su.uid] = None
       THEN users' = [users EXCEPT ![su.uid] =
                        Some(Row(su.uid, None, Some({su.role})))]
       ELSE UNCHANGED users
  /\ su' = [su EXCEPT !.pc = "done", !.ret = "data"]
  /\ UNCHANGED <<signUpFrame, events, authSession>>
  /\ UNCHANGED <<expVars, listVars>>

\* the update of { roles: [role] } answers (its result is not looked at) and
\* signUp returns { data, error: null }
SignUpUpdateReturn(ok) ==
  /\ su.pc = "update"
  /\ IF ok /\ users[su.uid] # None
       THEN users' = [users EXCEPT ![su.uid] =
                        Some([users[su.uid][1] EXCEPT !.roles = Some({su.role})])]
       ELSE UNCHANGED users
  /\ su' = [su EXCEPT !.pc = "done", !.ret = "data"]
  /\ UNCHANGED <<signUpFrame, events, authSession>>
  /\ UNCHANGED <<expVars, listVars>>

\* ================================================== expense data access
ExpIds == 1..MaxExpenses

\* the row createExpense inserts: a pending expense without rejection
\* reason or payment (timestamps are not modelled)
NewExpense ==
  [status |-> "pending", rejection_reason |-> None,
   payment_status |-> "pending", paid_at |-> None]

\* the receipt row of file i of an expense
Receipt(id, i) == [expense_id |-> id, idx |-> i]

ReceiptsOf(id) == {rc \in receipts : rc.expense_id = id}

IdleCall == [pc |-> "idle", id |-> 0, err |-> ""]

ExpInit ==
  /\ expenses = [id \in ExpIds |-> None]
  /\ receipts = {}
  /\ nextId = 1
  /\ cr = [pc |-> "idle", id |-> 0, err |-> "", up |-> <<>>]
  /\ del = IdleCall
  /\ ret = "none"

\* no listing has been asked for and the relation it would read is empty
NoListing == table = {} /\ listed = None

Over(pc) == pc \in {"idle", "returned", "raised"}

\* ------------------------------------------------------------ createExpense
\* createExpense(expense, files) up to the insert of the expense row
CreateCall(n) ==
  /\ Over(cr.pc)
  /\ \A i \in DOMAIN cr.up : cr.up[i] # "pending"
  /\ nextId <= MaxExpenses
  /\ cr' = [pc |-> "awaitInsert", id |-> 0, err |-> "",
            up |-> [i \in 1..n |-> "pending"]]
  /\ UNCHANGED <<expenses, receipts, nextId, del, ret>>
  /\ UNCHANGED <<authVars, listVars>>

\* the insert answers: on error the call throws; with files the uploads
\* are all started (Promise.all over files.map)
CreateInsertReturn(ok) ==
  /\ cr.pc = "awaitInsert"
  /\ IF ok
       THEN /\ expenses' = [expenses EXCEPT ![nextId] = Some(NewExpense)]
            /\ nextId' = nextId + 1
            /\ cr' = [cr EXCEPT !.id = nextId,
                                !.pc = IF Len(cr.up) > 0 THEN "uploading" ELSE "returned"]
       ELSE /\ cr' = [cr EXCEPT !.pc = "raised", !.err = "expense", !.up = <<>>]
            /\ UNCHANGED <<expenses, nextId>>
  /\ UNCHANGED <<receipts, del, ret>>
  /\ UNCHANGED <<authVars, listVars>>

\* faulty variant: a failed upload does not reject the join (Promise.allSettled)
UploadReturnAllSettled(i, ok) ==
  /\ cr.pc = "uploading"
  /\ i \in DOMAIN cr.up
  /\ cr.up[i] = "pending"
  /\ cr' = [cr EXCEPT !.up[i] = IF ok THEN "ok" ELSE "failed",
              !.pc = IF \A j \in DOMAIN cr.up \ {i} : cr.up[j] # "pending"
                     THEN "awaitReceipts" ELSE cr.pc]
  /\ UNCHANGED <<expenses, receipts, nextId, del, ret>>
  /\ UNCHANGED <<authVars, listVars>>

\* the upload of file i answers. The first failure rejects Promise.all and
\* the call throws; the last success issues the batch insert of the
\* receipt rows. Uploads still pending after a rejection run on.
UploadReturn(i, ok) ==
  /\ cr.pc \in {"uploading", "raised"}
  /\ i \in DOMAIN cr.up
  /\ cr.up[i] = "pending"
  /\ IF ok
       THEN cr' = [cr EXCEPT !.up[i] = "ok",
                   !.pc = IF cr.pc = "uploading"
                             /\ \A j \in DOMAIN cr.up \ {i} : cr.up[j] = "ok"
                          THEN "awaitReceipts" ELSE cr.pc]
       ELSE cr' = [cr EXCEPT !.up[i] = "failed",
                   !.pc = "raised",
                   !.err = IF cr.pc = "uploading" THEN "upload" ELSE cr.err]
  /\ UNCHANGED <<expenses, receipts, nextId, del, ret>>
  /\ UNCHANGED <<authVars, listVars>>

\* the batch insert of the receipt rows answers
CreateReceiptsReturn(ok) ==
  /\ cr.pc = "awaitReceipts"
  /\ IF ok
       THEN /\ receipts' = receipts \cup {Receipt(cr.id, i) : i \in DOMAIN cr.up}
            /\ cr' = [cr EXCEPT !.pc = "returned"]
       ELSE /\ UNCHANGED receipts
            /\ cr' = [cr EXCEPT !.pc = "raised", !.err = "receipts"]
  /\ UNCHANGED <<expenses, nextId, del, ret>>
  /\ UNCHANGED <<authVars, listVars>>

\* ------------------------------------------------------------ deleteExpense
\* deleteExpense(id) up to the delete of the receipt rows
DeleteCall(id) ==
  /\ Over(del.pc)
  /\ del' = [pc |-> "awaitReceipts", id |-> id, err |-> ""]
  /\ UNCHANGED <<expenses, receipts, nextId, cr, ret>>
  /\ UNCHANGED <<authVars, listVars>>

\* faulty variant: receiptsError is logged and not thrown
DeleteReceiptsReturnIgnoresError(ok) ==
  /\ del.pc = "awaitReceipts"
  /\ receipts' = IF ok THEN receipts \ ReceiptsOf(del.id) ELSE receipts
  /\ del' = [del EXCEPT !.pc = "awaitExpense"]
  /\ UNCHANGED <<expenses, nextId, cr, ret>>
  /\ UNCHANGED <<authVars, listVars>>

\* the delete of the receipt rows answers: on error the call throws, else
\* the delete of the expense row is issued
DeleteReceiptsReturn(ok) ==
  /\ del.pc = "awaitReceipts"
  /\ IF ok
       THEN /\ receipts' = receipts \ ReceiptsOf(del.id)
            /\ del' = [del EXCEPT !.pc = "awaitExpense"]
       ELSE /\ UNCHANGED receipts
            /\ del' = [del EXCEPT !.pc = "raised", !.err = "receipts"]
  /\ UNCHANGED <<expenses, nextId, cr, ret>>
  /\ UNCHANGED <<authVars, listVars>>

\* the delete of the expense row answers
DeleteExpenseReturn(ok) ==
  /\ del.pc = "awaitExpense"
  /\ IF ok
       THEN /\ expenses' = [expenses EXCEPT ![del.id] = None]
            /\ del' = [del EXCEPT !.pc = "returned"]
       ELSE /\ UNCHANGED expenses
            /\ del' = [del EXCEPT !.pc = "raised", !.err = "expense"]
  /\ UNCHANGED <<receipts, nextId, cr, ret>>
  /\ UNCHANGED <<authVars, listVars>>

\* ------------------------------------------------------ updateExpenseStatus
\* the rejectionReason argument: undefined, "" or a text
Reasons == {None, Some(""), Some("late")}

\* const updateData = { status, updated_at }; rejection_reason is added
\* only if (status === "rejected" && rejectionReason)
StatusUpdate(row, status, reason) ==
  IF status = "rejected" /\ reason # None /\ reason[1] # ""
    THEN [row EXCEPT !.status = status, !.rejection_reason = reason]
    ELSE [row EXCEPT !.status = status]

\* updateExpenseStatus(id, status, rejectionReason): one update of the
\* rows with that id, applied when the backend answers without error
UpdateExpenseStatus(id, status, reason, ok) ==
  /\ IF ok
       THEN /\ expenses' = [expenses EXCEPT ![id] =
                              IF @ = None THEN None
                              ELSE Some(StatusUpdate(@[1], status, reason))]
            /\ ret' = "returned"
       ELSE /\ UNCHANGED expenses
            /\ ret' = "raised"
  /\ UNCHANGED <<receipts, nextId, cr, del>>
  /\ UNCHANGED <<authVars, listVars>>

\* ------------------------------------------------------ updatePaymentStatus
\* faulty variant: paid_at is written only when the expense is paid
PaymentUpdateKeepsPaidAt(row, isPaid) ==
  IF isPaid
    THEN [row EXCEPT !.payment_status = "paid", !.paid_at = Some("now")]
    ELSE [row EXCEPT !.payment_status = "pending"]

\* const updateData = { payment_status: isPaid ? "paid" : "pending",
\*                      paid_at: isPaid ? new Date().toISOString() : null,
\*                      updated_at }
PaymentUpdate(row, isPaid) ==
  [row EXCEPT !.payment_status = IF isPaid THEN "paid" ELSE "pending",
              !.paid_at = IF isPaid THEN Some("now") ELSE None]

\* updatePaymentStatus(id, isPaid): one update of the rows with that id,
\* applied when the backend answers without error; on error the call throws
UpdatePaymentStatus(id, isPaid, ok) ==
  /\ IF ok
       THEN /\ expenses' = [expenses EXCEPT ![id] =
                              IF @ = None THEN None
                              ELSE Some(PaymentUpdate(@[1], isPaid))]
            /\ ret' = "returned"
       ELSE /\ UNCHANGED expenses
            /\ ret' = "raised"
  /\ UNCHANGED <<receipts, nextId, cr, del>>
  /\ UNCHANGED <<authVars, listVars>>

ExpNext ==
  \/ \E n \in 0..MaxFiles : CreateCall(n)
  \/ \E ok \in BOOLEAN : CreateInsertReturn(ok)
  \/ \E i \in 1..MaxFiles, ok \in BOOLEAN : UploadReturn(i, ok)
  \/ \E ok \in BOOLEAN : CreateReceiptsReturn(ok)
  \/ \E id \in ExpIds : DeleteCall(id)
  \/ \E ok \in BOOLEAN : DeleteReceiptsReturn(ok)
  \/ \E ok \in BOOLEAN : DeleteExpenseReturn(ok)
  \/ \E id \in ExpIds, status \in {"approved", "rejected"},
        reason \in Reasons, ok \in BOOLEAN :
        UpdateExpenseStatus(id, status, reason, ok)

\* the data-access module on its own: nobody is signed in and the auth
\* context is left at rest
AuthAtRest ==
  /\ AuthInit
  /\ authSession = None
  /\ events = <<>>
  /\ users = [u \in UserIds |-> None]

ExpenseInit ==
  /\ ExpInit
  /\ AuthAtRest
  /\ NoListing

ExpenseSpec == ExpenseInit /\ [][ExpNext]_vars

\* ------------------------------------------------------------ fetchExpenses
MaxRows == 2   \* expense rows the relation holds when it is listed

\* text is a sequence of characters; these are the letters with two cases
Lower(c) == CASE c = "T" -> "t" [] c = "A" -> "a" [] OTHER -> c

ToLower(s) == [i \in DOMAIN s |-> Lower(s[i])]

RECURSIVE TrimStart(_)
TrimStart(s) == IF s # <<>> /\ Head(s) = " " THEN TrimStart(Tail(s)) ELSE s

RECURSIVE TrimEnd(_)
TrimEnd(s) ==
  IF s # <<>> /\ s[Len(s)] = " " THEN TrimEnd(SubSeq(s, 1, Len(s) - 1)) ELSE s

\* String.prototype.trim
Trim(s) == TrimEnd(TrimStart(s))

Contains(s, t) == \E i \in 1..(Len(s) - Len(t) + 1) : SubSeq(s, i, i + Len(t) - 1) = t

\* column.ilike.%term%: case-insensitive substring match
ILike(text, term) == Contains(ToLower(text), ToLower(term))

Dates == {1, 2}

\* the columns of an expense row that fetchExpenses filters and sorts on
ExpenseRow(st, c, k, d, name, description) ==
  [status |-> st, category_id |-> c, cost_center_id |-> k,
   submitted_date |-> d, name |-> name, description |-> description]

\* the rows the relation may hold: every combination of status, category,
\* cost center and date under a name and description without "ta", and the
\* approved rows of c1 and k1 that hold it in the name or in the description
ExpenseRows ==
  { ExpenseRow(st, c, k, d, <<"b">>, <<>>) :
      st \in {"pending", "approved"}, c \in {"c1", "c2"}, k \in {"k1", "k2"},
      d \in Dates }
  \cup
  { ExpenseRow("approved", "c1", "k1", d, t[1], t[2]) :
      d \in Dates, t \in {<<<<"T", "a", "x">>, <<>>>>, <<<<"b">>, <<"t", "A">>>>} }

\* the relations of at most n rows
RECURSIVE ExpenseTables(_)
ExpenseTables(n) ==
  IF n = 0 THEN {{}}
  ELSE LET smaller == ExpenseTables(n - 1)
       IN  smaller \cup {t \cup {r} : t \in smaller, r \in ExpenseRows}

\* the filters argument: each field absent (None), empty or a value;
\* dateRange.from and dateRange.to are Date objects when present
Filters ==
  [search : {None, Some(<<" ">>), Some(<<" ", "t", "A">>)},
   status : {None, Some(""), Some("approved")},
   category : {None, Some(""), Some("c1")},
   costCenter : {None, Some(""), Some("k1")},
   from : {None, Some(2)},
   to : {None, Some(1)}]

\* Date.prototype.toISOString: the instant written as a UTC timestamp
ToISOString(d) == [utc |-> d]

\* filters.search && filters.search.trim()
SearchSupplied(f) == f.search # None /\ f.search[1] # <<>> /\ Trim(f.search[1]) # <<>>

\* faulty variant: the upper bound of the date range is exclusive
MatchesUpperExclusive(row, f) ==
  /\ SearchSupplied(f) =>
       \/ ILike(row.name, Trim(f.search[1]))
       \/ ILike(row.description, Trim(f.search[1]))
  /\ Truthy(f.status) => row.status = f.status[1]
  /\ Truthy(f.category) => row.category_id = f.category[1]
  /\ Truthy(f.costCenter) => row.cost_center_id = f.costCenter[1]
  /\ f.from # None => row.submitted_date >= ToISOString(f.from[1]).utc
  /\ f.to # None => row.submitted_date < ToISOString(f.to[1]).utc

\* the query fetchExpenses builds: one condition per supplied filter
Matches(row, f) ==
  /\ SearchSupplied(f) =>
       \/ ILike(row.name, Trim(f.search[1]))
       \/ ILike(row.description, Trim(f.search[1]))
  /\ Truthy(f.status) => row.status = f.status[1]
  /\ Truthy(f.category) => row.category_id = f.category[1]
  /\ Truthy(f.costCenter) => row.cost_center_id = f.costCenter[1]
  /\ f.from # None => row.submitted_date >= ToISOString(f.from[1]).utc
  /\ f.to # None => row.submitted_date <= ToISOString(f.to[1]).utc

SortedDescending(rows) ==
  \A i, j \in DOMAIN rows : i < j => rows[i].submitted_date >= rows[j].submitted_date

\* order("submitted_date", { ascending: false }): the rows in one of the
\* orders the backend may return them in (rows of equal date in any order)
Orderings(S) ==
  {rows \in [1..Cardinality(S) -> S] :
     /\ \A i, j \in DOMAIN rows : i # j => rows[i] # rows[j]
     /\ SortedDescending(rows)}

\* fetchExpenses(filters): the query answers with the rows (return data)
\* or with an error (throw error); one call is looked at
FetchExpenses(f, ok) ==
  /\ listed = None
  /\ IF ok
       THEN \E rows \in Orderings({row \in table : Matches(row, f)}) :
              listed' = Some([op |-> "fetchExpenses", out |-> "returned",
                              filters |-> f, rows |-> rows])
       ELSE listed' = Some([op |-> "fetchExpenses", out |-> "raised"])
  /\ UNCHANGED table
  /\ UNCHANGED <<authVars, expVars>>

\* fetchExpenses() without filters
NoFilters ==
  [search |-> None, status |-> None, category |-> None, costCenter |-> None,
   from |-> None, to |-> None]

\* faulty variant: the catch block of fetchCategories rethrows
FetchCategoriesRethrows(ok) ==
  /\ listed = None
  /\ listed' = Some([op |-> "fetchCategories",
                     out |-> IF ok THEN "returned" ELSE "raised"])
  /\ UNCHANGED table
  /\ UNCHANGED <<authVars, expVars>>

\* fetchCategories(): the rows (return data || []), or [] when the query
\* answers with an error (the catch block returns [])
FetchCategories(ok) ==
  /\ listed = None
  /\ listed' = Some([op |-> "fetchCategories",
                     out |-> IF ok THEN "returned" ELSE "empty"])
  /\ UNCHANGED table
  /\ UNCHANGED <<authVars, expVars>>

\* fetchCostCenters(): as fetchCategories, on cost_centers
FetchCostCenters(ok) ==
  /\ listed = None
  /\ listed' = Some([op |-> "fetchCostCenters",
                     out |-> IF ok THEN "returned" ELSE "empty"])
  /\ UNCHANGED table
  /\ UNCHANGED <<authVars, expVars>>

\* the listing on its own, over every relation of at most MaxRows rows
ListInit ==
  /\ ExpInit
  /\ AuthAtRest
  /\ table \in ExpenseTables(MaxRows)
  /\ listed = None

ListSpec == ListInit /\ [][\E f \in Filters, ok \in BOOLEAN : FetchExpenses(f, ok)]_vars

\* every operation of the module side by side, the expenses being created
\* without files (the uploads are followed in ExpenseSpec)
DataNext ==
  \/ CreateCall(0)
  \/ \E ok \in BOOLEAN : CreateInsertReturn(ok)
  \/ \E id \in ExpIds : DeleteCall(id)
  \/ \E ok \in BOOLEAN : DeleteReceiptsReturn(ok)
  \/ \E ok \in BOOLEAN : DeleteExpenseReturn(ok)
  \/ \E id \in ExpIds, status \in {"approved", "rejected"},
        reason \in Reasons, ok \in BOOLEAN :
        UpdateExpenseStatus(id, status, reason, ok)
  \/ \E id \in ExpIds, isPaid, ok \in BOOLEAN : UpdatePaymentStatus(id, isPaid, ok)
  \/ \E ok \in BOOLEAN : FetchExpenses(NoFilters, ok)
  \/ \E ok \in BOOLEAN : FetchCategories(ok)
  \/ \E ok \in BOOLEAN : FetchCostCenters(ok)

DataSpec == ExpenseInit /\ [][DataNext]_vars

\* ------------------------------------------------------------------ spec
FetchStep(r) ==
  \/ FetchReadFound(r)
  \/ FetchReadMissing(r)
  \/ FetchReadFails(r)
  \/ FetchGetUser(r)
  \/ FetchInsert(r)
  \/ FetchInsertFails(r)
  \/ FetchReread(r)
  \/ FetchRereadFails(r)

AuthNext ==
  \/ GetSessionThen
  \/ OnAuthStateChange
  \/ \E state \in {"visible", "hidden"} : HandleVisibility(state)
  \/ TokenRefreshed
  \/ \E u \in UserIds : SignInCall(u)
  \/ \E ok \in BOOLEAN : SignInReturn(ok)
  \/ SignOutCall
  \/ \E ok \in BOOLEAN : SignOutReturn(ok)
  \/ \E r \in 1..MaxFetches : FetchStep(r)

SignUpNext ==
  \/ \E u \in UserIds, role \in SignUpRoles : SignUpCall(u, role)
  \/ \E ok, signedIn \in BOOLEAN : SignUpAuthReturn(ok, signedIn)
  \/ TriggerCreatesProfile
  \/ \E ok \in BOOLEAN : SignUpReadReturn(ok)
  \/ \E ok \in BOOLEAN : SignUpInsertReturn(ok)
  \/ \E ok \in BOOLEAN : SignUpUpdateReturn(ok)

Init ==
  /\ AuthInit
  /\ users \in Tables(UNION {StoredProfiles(u) : u \in UserIds})
  /\ ExpInit
  /\ NoListing

Next == AuthNext

Spec == Init /\ [][Next]_vars

\* every backend call is answered and every delivered event is handled; what
\* the user and the auth service do on their own is not forced
Fairness ==
  /\ WF_vars(GetSessionThen)
  /\ WF_vars(OnAuthStateChange)
  /\ WF_vars(\E ok \in BOOLEAN : SignInReturn(ok))
  /\ WF_vars(\E ok \in BOOLEAN : SignOutReturn(ok))
  /\ \A r \in 1..MaxFetches : WF_vars(FetchStep(r))

\* which roles a row carries, and which of the users it is that has no row
\* yet, decides no branch of the control flow: the progress and frame
\* properties are checked with one kind of stored row, which the first
\* user may have
PlainProfile(u) == {Row(u, Some("approver"), None)}

LiveInit ==
  /\ AuthInit
  /\ users \in Tables(PlainProfile("u1"))
  /\ ExpInit
  /\ NoListing

LiveSpec == LiveInit /\ [][Next]_vars /\ Fairness

\* a registration and the part of the context that runs beside it (the
\* startup answer, the event handler and the profile resolutions): the users
\* to register have no profile row yet and nobody is signed in
SignUpInit ==
  /\ AuthInit
  /\ authSession = None
  /\ users = [u \in UserIds |-> None]
  /\ ExpInit
  /\ NoListing

SignUpSpecNext ==
  \/ GetSessionThen
  \/ OnAuthStateChange
  \/ \E r \in 1..MaxFetches : FetchStep(r)
  \/ SignUpNext

SignUpSpec == SignUpInit /\ [][SignUpSpecNext]_vars

\* ================================================================ claims
NoRunInFlight == \A r \in 1..MaxFetches : ~InFlight(r)

\* C1: the first auth-state-change event handled after startup changes none
\* of session, user, profile, isAdmin, userRoles and loading and starts no
\* profile fetch; once it has been handled at most one fetch, the startup
\* one, has been started, whichever of the startup answer and the event came
\* first.
C1_FirstEventDiscarded ==
  [][(initialLoad /\ ~initialLoad') =>
       /\ UNCHANGED <<identity, isLoading, runs, fetchCount>>
       /\ fetchCount' <= 1
       /\ \A r \in 1..MaxFetches : runs'[r].by # "event"]_vars

\* the first event has been handled and the startup fetch for the stored
\* session is the only one started
C1_Witness ==
  /\ ~initialLoad
  /\ getSessionPc = "done"
  /\ session # None
  /\ fetchCount = 1
  /\ runs[1].pc = "read" /\ runs[1].by = "startup"
  /\ signOutPc = "idle" /\ signInCall.pc = "idle" /\ events = <<>>

\* the role set the claim derives from a profile row: the roles collection
\* if present, else the singular role (null and "" count as absent)
\* wrapped, else {"user"}
C2_RoleSet(row) ==
  IF row.roles # None THEN row.roles[1]
  ELSE IF row.role \notin {None, Some("")} THEN {row.role[1]}
  ELSE {"user"}

\* C2: whenever the context holds a resolved profile, hasRole(r) is true
\* exactly if "admin" or r is in the role set of that profile.
C2_HasRole ==
  profile # None =>
    \A r \in RoleNames :
      hasRole(r) <=> ("admin" \in C2_RoleSet(profile[1]) \/ r \in C2_RoleSet(profile[1]))

\* a resolved admin profile whose role set lacks the role asked for
C2_Witness ==
  /\ NoRunInFlight
  /\ profile # None
  /\ hasRole("approver")
  /\ "approver" \notin userRoles

\* C3: deleteExpense(id) issues the delete of the expense row only once the
\* delete of every receipt row of id has succeeded, and only it removes
\* expense rows; if the receipt delete fails the call raises that error,
\* the expense row is untouched and the expense delete is never issued.
C3_DeleteOrder ==
  [][
      /\ (del'.pc = "awaitExpense" /\ del.pc # "awaitExpense") =>
          /\ del.pc = "awaitReceipts"
          /\ {rc \in receipts' : rc.expense_id = del'.id} = {}
      /\ (\E id \in ExpIds : expenses[id] # None /\ expenses'[id] = None) =>
          /\ del.pc = "awaitExpense"
          /\ \A id \in ExpIds : (expenses'[id] # expenses[id]) => (id = del.id)
      /\ (del.pc = "awaitReceipts" /\ del'.pc = "raised") =>
          /\ del'.err = "receipts"
          /\ expenses' = expenses
      /\ (del.pc = "raised") => (del'.pc \in {"raised", "awaitReceipts"})
    ]_vars

\* the receipt delete of an expense with two receipts has failed: the call
\* has raised and the expense and its receipts are still there
C3_Witness ==
  /\ del.pc = "raised" /\ del.err = "receipts"
  /\ expenses[del.id] # None
  /\ Cardinality(ReceiptsOf(del.id)) = 2

\* C4: under every interleaving of createExpense and deleteExpense every
\* receipt row references an existing expense row, by the data-access
\* module alone (the relations enforce no foreign key).
C4_NoOrphanReceipts ==
  \A rc \in receipts : expenses[rc.expense_id] # None

\* C5: after any sequence of updateExpenseStatus calls a stored expense has
\* a rejection_reason only when its status is "rejected".
C5_ReasonOnlyWhenRejected ==
  \A id \in ExpIds :
    (expenses[id] # None /\ expenses[id][1].rejection_reason # None)
      => expenses[id][1].status = "rejected"

\* C9: a failed upload makes createExpense raise the upload error without
\* touching the expense or receipt rows; the receipt batch insert is issued
\* only when every upload has succeeded and receipt rows come from that
\* insert alone, so a call that raised on an upload has no receipt row.
C9_UploadFailure ==
  /\ [][
          /\ (cr.pc = "uploading" /\ cr'.pc = "raised") =>
              /\ cr'.err = "upload"
              /\ expenses' = expenses
              /\ receipts' = receipts
          /\ (cr'.pc = "awaitReceipts" /\ cr.pc # "awaitReceipts") =>
              \A i \in DOMAIN cr'.up : cr'.up[i] = "ok"
          /\ ~(receipts' \subseteq receipts) =>
              /\ cr.pc = "awaitReceipts"
              /\ \A i \in DOMAIN cr.up : cr.up[i] = "ok"
        ]_vars
  /\ []((cr.pc = "raised" /\ cr.err = "upload") => ReceiptsOf(cr.id) = {})

\* two files, the first uploaded and the second failed: the call has raised,
\* the expense row is present and has no receipt row
C9_Witness ==
  /\ cr.pc = "raised" /\ cr.err = "upload"
  /\ cr.up = <<"ok", "failed">>
  /\ expenses[cr.id] # None
  /\ ReceiptsOf(cr.id) = {}

\* C6: a profile-resolution run whose read finds a row ends without
\* touching the users relation; a run enters the creation path only from a
\* read that found no row, and issues the insert only from there.
C6_NoInsertWhenFound ==
  [][\A r \in 1..MaxFetches :
       /\ (runs'[r].pc = "getUser" /\ runs[r].pc # "getUser") =>
            (runs[r].pc = "read" /\ users[runs[r].uid] = None)
       /\ (runs'[r].pc = "insert" /\ runs[r].pc # "insert") =>
            (runs[r].pc = "getUser")
       /\ (runs[r].pc = "read" /\ users[runs[r].uid] # None /\ runs'[r] # runs[r]) =>
            (runs'[r].pc = "done" /\ users' = users)]_vars

\* a second resolution is under way for a user whose stored (not
\* auto-created) profile an earlier one has already adopted
C6_Witness ==
  /\ runs[1].pc = "done"
  /\ runs[2].pc = "read"
  /\ profile # None
  /\ profile[1].id = runs[2].uid
  /\ profile[1] \in StoredProfiles(runs[2].uid)
  /\ users[runs[2].uid] = profile

\* C7: if every backend call is answered, every profile-resolution run
\* ends, and ends with loading = false on whichever path it leaves by (a
\* run is started once and never restarted, so "every run ends" is "from
\* some point on no run is in flight"); from startup loading = false is
\* reached, with and without a stored session.
C7_LoadingCleared ==
  /\ [][\A r \in 1..MaxFetches :
          (InFlight(r) /\ runs'[r].pc = "done") => isLoading' = FALSE]_vars
  /\ <>[](\A r \in 1..MaxFetches : ~InFlight(r))
  /\ <>(isLoading = FALSE)

\* a run has ended on the auto-create path and loading is false
C7_Witness ==
  /\ fetchCount >= 1
  /\ NoRunInFlight
  /\ ~isLoading
  /\ profile # None
  /\ profile[1].roles = Some({"user"})

\* C8: signIn itself changes none of session, user, profile, isAdmin,
\* userRoles and loading; the state update of a successful signIn arrives
\* with its SIGNED_IN event: once the startup answer is in, the callback's
\* handling of that event makes session and user those of the signed-in
\* identity.
C8_SignInReachesContext ==
  [][/\ signInCall' # signInCall => UNCHANGED <<identity, isLoading>>
     /\ (/\ getSessionPc = "done"
         /\ events # <<>>
         /\ Head(events).type = "SIGNED_IN"
         /\ events' = Tail(events))
          => (session' = Head(events).session /\ user' = Head(events).session)]_vars

\* C10: when signOut completes session, user and profile are absent,
\* isAdmin is false, userRoles is empty and loading is false, whatever the
\* state before and whether or not the backend call succeeded.
C10_SignOutClears ==
  [][(signOutPc = "awaiting" /\ signOutPc' = "done") =>
       /\ session' = None /\ user' = None /\ profile' = None
       /\ isAdmin' = FALSE /\ userRoles' = {}
       /\ isLoading' = FALSE]_vars

\* signOut has completed although its backend call failed (the auth service
\* still holds the session) while a profile fetch is in flight
C10_Witness ==
  /\ signOutPc = "done"
  /\ authSession # None
  /\ events = <<>> /\ signInCall.pc = "idle"
  /\ \E r \in 1..MaxFetches : InFlight(r)
  /\ session = None /\ user = None /\ profile = None
  /\ ~isAdmin /\ userRoles = {} /\ ~isLoading

\* C11: once signUp(email, password, name, role) has returned successfully
\* the users row of the new user exists and its roles are exactly [role],
\* also when a profile resolution started by the sign-up's auth event has
\* created the row with the default role in the meantime.
C11_SignUpRoleStored ==
  (su.pc = "done" /\ su.ret = "data") =>
    /\ users[su.uid] # None
    /\ users[su.uid][1].roles = Some({su.role})

\* C12: a signUp whose credential creation succeeded returns the sign-up
\* data with error = null whatever the profile read, insert or update
\* answered; one whose credential creation failed returns the error with
\* data = null straight from the answer of auth.signUp, with no profile
\* read, insert or update issued and the users relation untouched.
C12_SignUpReturn ==
  [][
    /\ (su.pc = "auth" /\ su'.pc = "done") =>
         (su'.ret = "error" /\ users' = users)
    /\ (su.pc \in {"read", "insert", "update"} /\ su'.pc = "done") =>
         su'.ret = "data"
    /\ (su'.pc = "done" /\ su'.ret = "error") =>
         (su.pc \in {"auth", "done"} /\ su'.pc = "done")
    /\ (su.pc = "done") => (su' = su)
    /\ (su'.pc \in {"read", "insert", "update"}) => (su.pc # "idle" /\ su'.ret = "")
  ]_vars

\* a successful return although the insert was refused and no row exists
C12_Witness ==
  /\ su.pc = "done" /\ su.ret = "data"
  /\ users[su.uid] = None
  /\ getSessionPc = "done"

\* C13: a successful updatePaymentStatus(id, is_paid) leaves the row with
\* payment_status "paid" and a non-null paid_at if is_paid, and with
\* "pending" and a null paid_at if not; no other operation changes the
\* payment fields of a row, so they reflect the last successful call, and
\* in every state payment_status = "paid" exactly when paid_at is non-null.
C13_PaymentFields ==
  /\ [](\A id \in ExpIds : expenses[id] # None =>
          (expenses[id][1].payment_status = "paid" <=> expenses[id][1].paid_at # None))
  /\ [][
       \A id \in ExpIds : (expenses[id] # None /\ expenses'[id] # None) =>
         /\ \A isPaid \in BOOLEAN : UpdatePaymentStatus(id, isPaid, TRUE) =>
              /\ expenses'[id][1].payment_status = (IF isPaid THEN "paid" ELSE "pending")
              /\ (expenses'[id][1].paid_at # None) = isPaid
         /\ (\A isPaid \in BOOLEAN : ~UpdatePaymentStatus(id, isPaid, TRUE)) =>
              /\ expenses'[id][1].payment_status = expenses[id][1].payment_status
              /\ expenses'[id][1].paid_at = expenses[id][1].paid_at
     ]_vars

\* a paid expense whose status was also decided
C13_Witness ==
  /\ expenses[1] # None
  /\ expenses[1][1].payment_status = "paid"
  /\ expenses[1][1].paid_at # None
  /\ expenses[1][1].status = "approved"

\* C14: fetchExpenses(filters) returns exactly the rows that satisfy every
\* supplied filter together (exact status, category and cost center,
\* submitted_date >= from and <= to with both bounds included, and the
\* search text when one is given), takes a filter that is absent or empty
\* as not supplied, and returns the rows by descending submitted_date.
C14_Satisfies(row, f) ==
  /\ (f.status \notin {None, Some("")}) => (row.status = f.status[1])
  /\ (f.category \notin {None, Some("")}) => (row.category_id = f.category[1])
  /\ (f.costCenter \notin {None, Some("")}) => (row.cost_center_id = f.costCenter[1])
  /\ (f.from # None) => (row.submitted_date >= f.from[1])
  /\ (f.to # None) => (row.submitted_date <= f.to[1])
  /\ (f.search # None /\ Trim(f.search[1]) # <<>>) =>
       (ILike(row.name, Trim(f.search[1])) \/ ILike(row.description, Trim(f.search[1])))

C14_FetchExpensesFilters ==
  (listed # None /\ listed[1].out = "returned") =>
    LET f == listed[1].filters
        rows == listed[1].rows
    IN  /\ {rows[i] : i \in DOMAIN rows} = {row \in table : C14_Satisfies(row, f)}
        /\ Len(rows) = Cardinality({row \in table : C14_Satisfies(row, f)})
        /\ \A i \in DOMAIN rows : i > 1 =>
             rows[i - 1].submitted_date >= rows[i].submitted_date

\* two rows of different categories returned newest first under a status
\* filter, the empty category filter being ignored
C14_Witness ==
  /\ listed # None /\ listed[1].out = "returned"
  /\ Cardinality(table) = 2
  /\ Len(listed[1].rows) = 2
  /\ listed[1].rows[1].submitted_date = 2
  /\ listed[1].rows[2].submitted_date = 1
  /\ listed[1].filters.status = Some("approved")
  /\ listed[1].filters.category = Some("")
  /\ \E row \in table : row.category_id = "c2"

\* what a failed backend call does to each mutation operation: the call
\* raises that error
C15_MutationsRaise ==
  /\ CreateInsertReturn(FALSE) => (cr'.pc = "raised" /\ cr'.err = "expense")
  /\ DeleteReceiptsReturn(FALSE) => (del'.pc = "raised" /\ del'.err = "receipts")
  /\ DeleteExpenseReturn(FALSE) => (del'.pc = "raised" /\ del'.err = "expense")
  /\ \A id \in ExpIds, status \in {"approved", "rejected"}, reason \in Reasons :
       UpdateExpenseStatus(id, status, reason, FALSE) => (ret' = "raised")
  /\ \A id \in ExpIds, isPaid \in BOOLEAN :
       UpdatePaymentStatus(id, isPaid, FALSE) => (ret' = "raised")

\* what it does to the lists of categories and of cost centers: the error
\* is swallowed and [] is returned
C15_NameListsSwallow ==
  /\ FetchCategories(FALSE) =>
       (listed' = Some([op |-> "fetchCategories", out |-> "empty"]))
  /\ FetchCostCenters(FALSE) =>
       (listed' = Some([op |-> "fetchCostCenters", out |-> "empty"]))

\* C15: when the backend call fails, the list operations on categories, on
\* cost centers and on expenses swallow the error and return an empty list,
\* whereas createExpense, updateExpenseStatus, updatePaymentStatus and
\* deleteExpense raise the error to the caller.
C15_ListsSwallow ==
  [][
    /\ C15_NameListsSwallow
    /\ FetchExpenses(NoFilters, FALSE) => (listed'[1].out = "empty")
    /\ C15_MutationsRaise
  ]_vars

\* C15 as the code has it: the lists of categories and of cost centers
\* swallow the error and return an empty list, whereas fetchExpenses, like
\* the four mutation operations, raises the error to the caller.
C15_ErrorPropagation ==
  [][
    /\ C15_NameListsSwallow
    /\ FetchExpenses(NoFilters, FALSE) => (listed'[1].out = "raised")
    /\ C15_MutationsRaise
  ]_vars

\* a category list that came back empty because of an error, beside an
\* update and a createExpense that raised theirs
C15_Witness ==
  /\ listed = Some([op |-> "fetchCategories", out |-> "empty"])
  /\ ret = "raised"
  /\ cr.pc = "raised"

\* C16: the handler of a visibility change to "visible" can run in every
\* state, sets loading to false and leaves session, user, profile, isAdmin
\* and userRoles as they are, also while a profile fetch is in flight; a
\* change to a non-visible state changes nothing.
C16_VisibilityFrame ==
  /\ [](ENABLED HandleVisibility("visible"))
  /\ [][
       /\ HandleVisibility("visible") => (isLoading' = FALSE /\ UNCHANGED identity)
       /\ HandleVisibility("hidden") => UNCHANGED <<identity, isLoading>>
     ]_vars

\* loading is off while the only fetch ever started is still in flight and
\* nobody signed out: the tab became visible in between
C16_Witness ==
  /\ isLoading = FALSE
  /\ fetchCount = 1
  /\ InFlight(1)
  /\ user # None
  /\ signOutPc = "idle"

\* C17: in every reachable state an absent user implies an absent profile
\* and isAdmin = false; a profile fetch started before a sign-out and
\* answered after it does not bring profile, isAdmin or userRoles back.
C17_NoProfileWithoutUser ==
  (user = None) => (profile = None /\ isAdmin = FALSE)

\* C18: whenever user and profile are both present and no profile fetch is
\* in flight, profile.id = user.id: overlapping resolutions for two user
\* ids, answered in either order, end with the current user's profile.
C18_ProfileOfCurrentUser ==
  (user # None /\ profile # None /\ NoRunInFlight) => (profile[1].id = user[1])

\* C19: in every reachable state isAdmin is true exactly when "admin" is a
\* member of userRoles.
C19_AdminIffRole ==
  isAdmin <=> ("admin" \in userRoles)

\* an admin by a roles collection that holds other roles too
C19_Witness ==
  /\ isAdmin
  /\ profile # None
  /\ userRoles = {"admin", "approver"}
====
